---- MODULE Spec2Model ----
(***************************************************************************)
(* Model of app.py: the Streamlit check-in / points application.           *)
(*                                                                         *)
(* Text is modelled as a sequence of one-character strings, so that        *)
(* str.strip(), strftime, the CSV round trip of pandas and Python's        *)
(* lexicographic string comparison are computed, not assumed.              *)
(* Category names and reward texts are the source's Chinese strings        *)
(* transliterated to ASCII; they are only ever compared for equality.      *)
(***************************************************************************)
EXTENDS Integers, Sequences, FiniteSets, TLC

(***************************************************************************)
(* Bounds of the model.                                                    *)
(***************************************************************************)
MaxLedger == 2      \* rows the CSV file may hold
MaxDay == 2         \* datetime.now() falls on day 1..MaxDay of 2024-01
MaxPoints == 25     \* largest point total handed to the reward evaluator
NumSessions == 2    \* browser sessions running main() at the same time

Sessions == 1..NumSessions
Days == 1..MaxDay
Hours == {0, 12}
None == 0           \* st.date_input(value=None) left unset

(***************************************************************************)
(* Program constants.                                                      *)
(***************************************************************************)
CATEGORY_POINTS == ("volunteer" :> 1) @@ ("food" :> 1) @@ ("culture" :> 2)

\* list(CATEGORY_POINTS.keys()): dict insertion order
CategoryList == <<"volunteer", "food", "culture">>

REWARDS ==
  (3 :> "free dinner") @@ (6 :> "drink") @@ (10 :> "free event") @@ (20 :> "banquet")

(***************************************************************************)
(* Inputs the user or the URL can supply.                                  *)
(***************************************************************************)
RawNames == {<<>>, <<" ">>, <<"A">>, <<" ", "A", " ">>, <<"B">>, <<"N", "A">>}
RawNotes == {<<>>, <<" ">>}
QueryCategories == {"", "culture", "dance"}
Flags == {"", "1"}
RuleSets == {[k \in S |-> REWARDS[k]] : S \in SUBSET (DOMAIN REWARDS)}

(***************************************************************************)
(* Text helpers.                                                           *)
(***************************************************************************)
RECURSIVE LStrip(_)
LStrip(t) == IF t # <<>> /\ Head(t) = " " THEN LStrip(Tail(t)) ELSE t

RECURSIVE RStrip(_)
RStrip(t) ==
  IF t # <<>> /\ t[Len(t)] = " " THEN RStrip(SubSeq(t, 1, Len(t) - 1)) ELSE t

\* str.strip()
Strip(t) == RStrip(LStrip(t))

DigitChars == <<"0", "1", "2", "3", "4", "5", "6", "7", "8", "9">>

Pad2(n) == <<DigitChars[((n \div 10) % 10) + 1], DigitChars[(n % 10) + 1]>>

Pad4(n) == Pad2(n \div 100) \o Pad2(n % 100)

\* str(date): ISO form YYYY-MM-DD
DateStr(d) == Pad4(d.year) \o <<"-">> \o Pad2(d.month) \o <<"-">> \o Pad2(d.day)

\* datetime.strftime("%Y-%m-%d %H:%M:%S")
Strftime(dt) ==
  DateStr(dt) \o <<" ">> \o Pad2(dt.hour) \o <<":">> \o Pad2(dt.minute)
    \o <<":">> \o Pad2(dt.second)

DateOf(day) == [year |-> 2024, month |-> 1, day |-> day]

DateTimeOf(day, hour) ==
  [year |-> 2024, month |-> 1, day |-> day, hour |-> hour, minute |-> 0, second |-> 0]

\* code point of a character occurring in a timestamp or a date
Ord(c) ==
  CASE c = " " -> 32
    [] c = "-" -> 45
    [] c = ":" -> 58
    [] OTHER -> 47 + (CHOOSE i \in 1..10 : DigitChars[i] = c)

\* Python's str <: lexicographic by code point, a proper prefix is smaller
RECURSIVE StrLess(_, _)
StrLess(a, b) ==
  IF b = <<>> THEN FALSE
  ELSE IF a = <<>> THEN TRUE
  ELSE IF Head(a) # Head(b) THEN Ord(Head(a)) < Ord(Head(b))
  ELSE StrLess(Tail(a), Tail(b))

StrLeq(a, b) == a = b \/ StrLess(a, b)

StrGeq(a, b) == ~StrLess(a, b)

(***************************************************************************)
(* CSV layer.  The file is a sequence of rows of text fields (the header   *)
(* is implied; a file that does not exist yet is created header-only by    *)
(* ensure_csv and is the empty sequence).  A data frame is the same rows   *)
(* after pandas parsed them: a text cell holding one of pandas' default    *)
(* missing-value spellings (the empty field, "NA", ...) is read as the     *)
(* float NaN, and to_csv writes NaN as the empty field.                    *)
(***************************************************************************)
NaN == <<"<NaN>">>

\* the default na_values of pandas.read_csv that the inputs can spell
NaValues == {<<>>, <<"N", "A">>}

ParseCell(t) == IF t \in NaValues THEN NaN ELSE t

FormatCell(c) == IF c = NaN THEN <<>> ELSE c

\* read_logs_csv: ensure_csv(), then pd.read_csv(LOG_CSV)
ReadLogsCsv(file) ==
  [i \in 1..Len(file) |->
     [file[i] EXCEPT !.name = ParseCell(@), !.note = ParseCell(@)]]

\* df.to_csv(LOG_CSV, index=False)
ToCsv(df) ==
  [i \in 1..Len(df) |->
     [df[i] EXCEPT !.name = FormatCell(@), !.note = FormatCell(@)]]

\* df.loc[len(df)] = log_row
AppendRow(df, row) == Append(df, row)

(***************************************************************************)
(* Shared logic.                                                           *)
(***************************************************************************)
RECURSIVE SumPoints(_)
SumPoints(rows) ==
  IF rows = <<>> THEN 0 ELSE Head(rows).points + SumPoints(Tail(rows))

SelectName(df, name) == SelectSeq(df, LAMBDA r : r.name = name)

\* groupby("name")["points"].sum(): one group per name, missing names dropped
GroupTotals(df) ==
  LET names == {df[i].name : i \in 1..Len(df)} \ {NaN}
  IN  {[name |-> n, total |-> SumPoints(SelectName(df, n))] : n \in names}

\* the orders sort_values(ascending=False) may give: descending by total,
\* equal totals in an order the sort does not promise
SortedDescending(groups) ==
  {b \in [1..Cardinality(groups) -> groups] :
     /\ \A g \in groups : \E i \in DOMAIN b : b[i] = g
     /\ \A i \in DOMAIN b : \A j \in DOMAIN b : i < j => b[i].total >= b[j].total}

\* total_points_by_name: the set of leaderboards it may return
TotalPointsByName(df) ==
  IF df = <<>> THEN {<<>>} ELSE SortedDescending(GroupTotals(df))

\* sorted(REWARDS)
RECURSIVE SortedKeys(_)
SortedKeys(S) ==
  IF S = {} THEN <<>>
  ELSE LET m == CHOOSE x \in S : \A y \in S : x <= y
       IN  <<m>> \o SortedKeys(S \ {m})

Terminal == [kind |-> "max"]

RECURSIVE HintLoop(_, _, _)
HintLoop(points, rules, ts) ==
  IF ts = <<>> THEN Terminal
  ELSE IF points < Head(ts)
       THEN [kind |-> "next", gap |-> Head(ts) - points,
             threshold |-> Head(ts), reward |-> rules[Head(ts)]]
       ELSE HintLoop(points, rules, Tail(ts))

\* next_reward_hint with the comparison points <= t: a total that equals a
\* threshold is told it is 0 points away from it
NextRewardHintAtOrAbove(points, rules) ==
  LET above == {t \in DOMAIN rules : points <= t}
  IN  IF above = {} THEN Terminal
      ELSE LET m == CHOOSE t \in above : \A u \in above : t <= u
           IN  [kind |-> "next", gap |-> m - points, threshold |-> m,
                reward |-> rules[m]]

\* next_reward_hint
NextRewardHint(points, rules) == HintLoop(points, rules, SortedKeys(DOMAIN rules))

\* the entry reward_text formats for threshold k
RewardEntry(rules, k) == [threshold |-> k, reward |-> rules[k]]

RECURSIVE EarnedLoop(_, _, _)
EarnedLoop(points, rules, ts) ==
  IF ts = <<>> THEN <<>>
  ELSE (IF points >= Head(ts) THEN <<RewardEntry(rules, Head(ts))>> ELSE <<>>)
         \o EarnedLoop(points, rules, Tail(ts))

\* reward_text with the comparison points > k: a threshold equal to the
\* total is not unlocked
RewardTextStrict(points, rules) ==
  LET ks == SelectSeq(SortedKeys(DOMAIN rules), LAMBDA k : points > k)
  IN  [i \in 1..Len(ks) |-> RewardEntry(rules, ks[i])]

\* reward_text: the earned list, in sorted(REWARDS) order (empty: the
\* "nothing unlocked yet" text)
RewardText(points, rules) == EarnedLoop(points, rules, SortedKeys(DOMAIN rules))

(***************************************************************************)
(* State.                                                                  *)
(***************************************************************************)
VARIABLES
  csv,      \* logs.csv: the rows of the file, in file order
  pc,       \* pc[s]: where session s stands in its run of main()
  run,      \* run[s]: the locals of session s's run of main()
  shown,    \* shown[s]: the kinds of message the run displayed so far
  appends,  \* history: the calls of append_log_csv that returned
  points,   \* reward evaluator: the point total evaluated
  rules,    \* reward evaluator: the rule set evaluated
  earned,   \* reward evaluator: what reward_text listed
  hint      \* reward evaluator: what next_reward_hint returned

vars == <<csv, pc, run, shown, appends, points, rules, earned, hint>>

NoRow == [time |-> <<>>, name |-> <<>>, category |-> "", points |-> 0, note |-> <<>>]

NoRun ==
  [op |-> "none", name |-> <<>>, q_category |-> "", category |-> "",
   go_detail |-> "", row |-> NoRow, df |-> <<>>, loaded |-> <<>>,
   df_logs |-> <<>>, start_date |-> None, end_date |-> None, his |-> <<>>,
   board |-> <<>>, tp |-> 0, earned |-> <<>>, hint |-> Terminal]

Instants == {[day |-> d, hour |-> h] : d \in Days, h \in Hours}

\* the timestamps already taken from datetime.now(): time does not run back
TakenTimes ==
  ({csv[i].time : i \in 1..Len(csv)} \cup {run[s].row.time : s \in Sessions})
    \ {<<>>}

NotBefore(now) ==
  \A t \in TakenTimes : StrGeq(Strftime(DateTimeOf(now.day, now.hour)), t)

InFlight == {s \in Sessions : pc[s] \in {"read", "write"}}

Init ==
  /\ csv = <<>>
  /\ pc = [s \in Sessions |-> "idle"]
  /\ run = [s \in Sessions |-> NoRun]
  /\ shown = [s \in Sessions |-> {}]
  /\ appends = 0
  /\ points = 0
  /\ rules = REWARDS
  /\ earned = RewardText(0, REWARDS)
  /\ hint = NextRewardHint(0, REWARDS)

(***************************************************************************)
(* The check-in tab of main().                                             *)
(***************************************************************************)
\* index of the selectbox: the URL's category when it is a key, else 0
DefaultIndex(q_category) ==
  IF q_category \in DOMAIN CATEGORY_POINTS
  THEN CHOOSE i \in 1..Len(CategoryList) : CategoryList[i] = q_category
  ELSE 1

\* what the selectbox returns: its default when disabled, else the user's pick
FormCategory(q_category, q_lock, picked) ==
  CategoryList[IF q_lock = "1" THEN DefaultIndex(q_category) ELSE picked]

BuildRow(name, category, note, now) ==
  [time |-> Strftime(DateTimeOf(now.day, now.hour)),
   name |-> Strip(name),
   category |-> category,
   points |-> CATEGORY_POINTS[category],
   note |-> Strip(note)]

\* the total the run displays for one name
TotalOf(df, name) ==
  LET g == {x \in GroupTotals(df) : x.name = name}
  IN  IF g = {} THEN 0 ELSE (CHOOSE x \in g : TRUE).total

\* a run of main() with the check-in form submitted: the page loads the
\* ledger, reads the URL and the form, and either warns about a blank name
\* or builds the row and enters write_log.  name is the text input's value
\* (the URL's name when the inputs are locked).
Submit(s, name, q_category, q_lock, picked, note, q_go_detail, now) ==
  /\ pc[s] = "idle"
  /\ NotBefore(now)
  /\ LET category == FormCategory(q_category, q_lock, picked)
         r0 == [NoRun EXCEPT !.op = "checkin", !.name = Strip(name),
                             !.q_category = q_category, !.category = category,
                             !.go_detail = q_go_detail,
                             !.loaded = ReadLogsCsv(csv),
                             !.df_logs = ReadLogsCsv(csv)]
     IN  IF Strip(name) = <<>>
         THEN /\ shown' = [shown EXCEPT ![s] = {"warning"}]
              /\ run' = [run EXCEPT ![s] = r0]
              /\ pc' = [pc EXCEPT ![s] = "done"]
         ELSE /\ Len(csv) + Cardinality(InFlight) < MaxLedger
              /\ shown' = [shown EXCEPT ![s] = {}]
              /\ run' = [run EXCEPT ![s] =
                           [r0 EXCEPT !.row = BuildRow(name, category, note, now)]]
              /\ pc' = [pc EXCEPT ![s] = "read"]
  /\ UNCHANGED <<csv, appends, points, rules, earned, hint>>

\* append_log_csv, first half: read the whole file and add the row to the
\* frame; a storage failure raises, and main() reports it
AppendRead(s, ok) ==
  /\ pc[s] = "read"
  /\ IF ok
     THEN /\ run' = [run EXCEPT ![s].df = AppendRow(ReadLogsCsv(csv), run[s].row)]
          /\ pc' = [pc EXCEPT ![s] = "write"]
          /\ UNCHANGED shown
     ELSE /\ shown' = [shown EXCEPT ![s] = {"error"}]
          /\ pc' = [pc EXCEPT ![s] = "done"]
          /\ UNCHANGED run
  /\ UNCHANGED <<csv, appends, points, rules, earned, hint>>

\* append_log_csv, second half: write the whole frame back
AppendWrite(s) ==
  /\ pc[s] = "write"
  /\ csv' = ToCsv(run[s].df)
  /\ appends' = appends + 1
  /\ pc' = [pc EXCEPT ![s] = "report"]
  /\ UNCHANGED <<run, shown, points, rules, earned, hint>>

\* after write_log returned: reload, report success, show the totals, and
\* with go_detail=1 call st.switch_page(""), which raises inside the try
Report(s) ==
  /\ pc[s] = "report"
  /\ LET df == ReadLogsCsv(csv)
         tp == TotalOf(df, run[s].name)
     IN  run' = [run EXCEPT ![s].df_logs = df,
                            ![s].tp = tp,
                            ![s].earned = RewardText(tp, REWARDS),
                            ![s].hint = NextRewardHint(tp, REWARDS),
                            ![s].his = SelectName(df, run[s].name)]
  /\ shown' = [shown EXCEPT ![s] =
                 IF run[s].go_detail = "1" THEN {"success", "error"} ELSE {"success"}]
  /\ pc' = [pc EXCEPT ![s] = "done"]
  /\ UNCHANGED <<csv, appends, points, rules, earned, hint>>

(***************************************************************************)
(* The personal-detail tab and the leaderboard tab of main().              *)
(***************************************************************************)
\* his[his.time >= str(start_date)] and his[his.time <= str(end_date)],
\* each applied only when its date is set: comparisons of strings
DateFilter(rows, start_date, end_date) ==
  LET from == IF start_date = None THEN rows
              ELSE SelectSeq(rows, LAMBDA r : StrGeq(r.time, DateStr(DateOf(start_date))))
  IN  IF end_date = None THEN from
      ELSE SelectSeq(from, LAMBDA r : StrLeq(r.time, DateStr(DateOf(end_date))))

\* a run of main() with a name typed into the personal-detail tab
Lookup(s, query_name, start_date, end_date) ==
  /\ pc[s] = "idle"
  /\ LET df == ReadLogsCsv(csv)
         r0 == [NoRun EXCEPT !.op = "lookup", !.name = Strip(query_name),
                             !.loaded = df, !.df_logs = df]
         his == DateFilter(SelectName(df, Strip(query_name)), start_date, end_date)
         tp == IF his = <<>> THEN 0 ELSE SumPoints(his)
     IN  run' = [run EXCEPT ![s] =
                   IF Strip(query_name) = <<>> THEN r0
                   ELSE [r0 EXCEPT !.start_date = start_date,
                                   !.end_date = end_date,
                                   !.his = his,
                                   !.tp = tp,
                                   !.earned = RewardText(tp, REWARDS),
                                   !.hint = NextRewardHint(tp, REWARDS)]]
  /\ shown' = [shown EXCEPT ![s] = {}]
  /\ pc' = [pc EXCEPT ![s] = "done"]
  /\ UNCHANGED <<csv, appends, points, rules, earned, hint>>

\* a run of main() showing the leaderboard tab
Board(s) ==
  /\ pc[s] = "idle"
  /\ LET df == ReadLogsCsv(csv)
     IN  \E b \in TotalPointsByName(df) :
           run' = [run EXCEPT ![s] =
                     [NoRun EXCEPT !.op = "board", !.loaded = df, !.df_logs = df,
                                   !.board = b]]
  /\ shown' = [shown EXCEPT ![s] = {}]
  /\ pc' = [pc EXCEPT ![s] = "done"]
  /\ UNCHANGED <<csv, appends, points, rules, earned, hint>>

\* the next interaction reruns main() from the top: the run's locals and
\* what it displayed are gone
Rerun(s) ==
  /\ pc[s] = "done"
  /\ pc' = [pc EXCEPT ![s] = "idle"]
  /\ run' = [run EXCEPT ![s] = NoRun]
  /\ shown' = [shown EXCEPT ![s] = {}]
  /\ UNCHANGED <<csv, appends, points, rules, earned, hint>>

\* reward_text and next_reward_hint applied to a point total and a rule table
Evaluate(p, r) ==
  /\ points' = p
  /\ rules' = r
  /\ earned' = RewardText(p, r)
  /\ hint' = NextRewardHint(p, r)
  /\ UNCHANGED <<csv, pc, run, shown, appends>>

(***************************************************************************)
(* Specifications.                                                         *)
(***************************************************************************)
\* one caller: a single session runs main() again and again
Next ==
  \/ \E name \in RawNames, q_category \in QueryCategories, q_lock \in Flags,
        picked \in 1..Len(CategoryList), note \in RawNotes, q_go_detail \in Flags,
        now \in Instants :
       Submit(1, name, q_category, q_lock, picked, note, q_go_detail, now)
  \/ \E ok \in BOOLEAN : AppendRead(1, ok)
  \/ AppendWrite(1)
  \/ Report(1)
  \/ \E query_name \in RawNames, start_date \in Days \cup {None},
        end_date \in Days \cup {None} :
       Lookup(1, query_name, start_date, end_date)
  \/ Board(1)
  \/ Rerun(1)

Spec == Init /\ [][Next]_vars

\* every session runs main() once, with its check-in form submitted; the
\* steps of the sessions interleave
NextConc ==
  \E s \in Sessions :
    \/ /\ pc[s] = "idle"
       /\ \E name \in {<<"A">>, <<"B">>}, q_category \in DOMAIN CATEGORY_POINTS,
             note \in {<<>>}, now \in Instants :
            Submit(s, name, q_category, "1", 1, note, "", now)
    \/ \E ok \in BOOLEAN : AppendRead(s, ok)
    \/ AppendWrite(s)
    \/ Report(s)

SpecConc == Init /\ [][NextConc]_vars

\* the reward evaluator on every point total and rule table of the bounds
NextReward == \E p \in 0..MaxPoints, r \in RuleSets : Evaluate(p, r)

SpecReward == Init /\ [][NextReward]_vars

(***************************************************************************)
(* Properties.                                                             *)
(***************************************************************************)
IsPrefix(a, b) == Len(a) <= Len(b) /\ SubSeq(b, 1, Len(a)) = a

\* the calendar day a stored timestamp falls on
ParseDay(t) == 10 * (Ord(t[9]) - 48) + (Ord(t[10]) - 48)

\* composite key of a stored row: the name, the event date (the day of the
\* check-in, no descriptor carrying another) and the category; this
\* application has one untitled event, so the title is the same everywhere
Key(r) == <<r.name, SubSeq(r.time, 1, 10), r.category>>

CheckinDone(s) == pc[s] = "done" /\ run[s].op = "checkin"

LedgerUnchangedBy(s) == ReadLogsCsv(csv) = run[s].loaded

\* C1: submitting the same (name, date, title, category) twice leaves exactly
\* one row with that composite key in the ledger: no two rows share a key.
C1_IdempotentCheckin ==
  \A i \in 1..Len(csv) : \A j \in 1..Len(csv) : i < j => Key(csv[i]) # Key(csv[j])

\* C2: whatever the interleaving of the sessions, no append is lost: once no
\* append is between its read and its write, the ledger holds one row for
\* every append that returned.
C2_NoLostAppend == (\A s \in Sessions : pc[s] # "write") => Len(csv) = appends

\* C3: the ledger is append-only for one sequential caller: every step leaves
\* the rows that were in the file in place, with the same field values.
C3_AppendOnly == [][IsPrefix(csv, csv')]_vars

\* C4: a check-in whose URL carries a category that is no key of the category
\* table fails with a validation message and writes no row.
C4_UnknownCategoryRejected ==
  \A s \in Sessions :
    (/\ CheckinDone(s)
     /\ run[s].q_category # ""
     /\ run[s].q_category \notin DOMAIN CATEGORY_POINTS)
    => /\ shown[s] \cap {"warning", "error"} # {}
       /\ "success" \notin shown[s]
       /\ LedgerUnchangedBy(s)

\* C5: a check-in with a blank name is rejected with a warning and leaves the
\* ledger unchanged, and every row of the ledger has a non-empty, stripped
\* name.
C5_BlankNameRejected ==
  /\ \A s \in Sessions :
       (CheckinDone(s) /\ run[s].name = <<>>)
       => (shown[s] = {"warning"} /\ LedgerUnchangedBy(s))
  /\ \A i \in 1..Len(csv) : csv[i].name # <<>> /\ Strip(csv[i].name) = csv[i].name

\* C6: the personal-detail filter keeps a row of the queried name iff
\* start <= ts and ts < end + 1 day (a bound left unset does not filter).
C6_DateRangeFilter ==
  \A s \in Sessions :
    (run[s].op = "lookup" /\ run[s].name # <<>>)
    => run[s].his =
         SelectSeq(SelectName(run[s].df_logs, run[s].name),
                   LAMBDA r :
                     /\ run[s].start_date # None => run[s].start_date <= ParseDay(r.time)
                     /\ run[s].end_date # None => ParseDay(r.time) < run[s].end_date + 1)

\* C7: the hint names the rule with the smallest threshold strictly greater
\* than points, with gap = threshold - points >= 1; when no threshold is
\* strictly greater (also for the empty rule table) it is the terminal result.
C7_NextUnmet ==
  LET above == {t \in DOMAIN rules : t > points}
  IN  IF above = {} THEN hint = Terminal
      ELSE LET m == CHOOSE t \in above : \A u \in above : t <= u
           IN  /\ hint.kind = "next"
               /\ hint.threshold = m
               /\ hint.reward = rules[m]
               /\ hint.gap = m - points
               /\ hint.gap >= 1

\* C7 witness: 5 points under the program's rules: 1 more point for the drink.
C7_Witness ==
  /\ points = 5
  /\ rules = REWARDS
  /\ hint = [kind |-> "next", gap |-> 1, threshold |-> 6, reward |-> "drink"]

\* C8: the unlocked rewards are exactly the rules with threshold <= points,
\* in ascending threshold order, none when points is below every threshold,
\* and the next unmet rule is never among them.
C8_Unlocked ==
  LET met == {t \in DOMAIN rules : t <= points}
  IN  /\ {earned[i].threshold : i \in 1..Len(earned)} = met
      /\ \A i \in 1..Len(earned) : earned[i].reward = rules[earned[i].threshold]
      /\ \A i \in 1..Len(earned) : \A j \in 1..Len(earned) :
           i < j => earned[i].threshold < earned[j].threshold
      /\ (\A t \in DOMAIN rules : points < t) => earned = <<>>
      /\ hint.kind = "next"
           => \A i \in 1..Len(earned) : earned[i].threshold # hint.threshold

\* C8 witness: 6 points under the program's rules unlock the rules at 3 and
\* at 6 (a threshold equal to the points), and the next unmet rule is at 10.
C8_Witness ==
  /\ points = 6
  /\ rules = REWARDS
  /\ earned = <<RewardEntry(REWARDS, 3), RewardEntry(REWARDS, 6)>>
  /\ hint.kind = "next"
  /\ hint.threshold = 10

\* C9: the leaderboard has exactly one entry per participant name occurring in
\* the ledger, holding the sum of that participant's points, ordered by total
\* descending; an empty ledger gives an empty leaderboard.
C9_Totals ==
  \A s \in Sessions :
    run[s].op = "board"
    => LET b == run[s].board
           names == {csv[i].name : i \in 1..Len(csv)}
       IN  /\ Len(b) = Cardinality(names)
           /\ \A n \in names :
                \E i \in 1..Len(b) :
                  /\ b[i].name = n
                  /\ b[i].total = SumPoints(SelectName(csv, n))
           /\ \A i \in 1..Len(b) : \A j \in 1..Len(b) :
                i < j => b[i].total >= b[j].total
           /\ csv = <<>> => b = <<>>

\* C10: for a check-in with a non-blank name, a reported write failure means
\* the ledger is unchanged, and an appended row means the run reported success
\* and no write failure.
C10_ReportMatchesEffect ==
  \A s \in Sessions :
    (CheckinDone(s) /\ run[s].name # <<>>)
    => /\ "error" \in shown[s] => LedgerUnchangedBy(s)
       /\ ~LedgerUnchangedBy(s) => ("success" \in shown[s] /\ "error" \notin shown[s])

====
